---- MODULE Spec2Model ----
(***************************************************************************)
(* A model of the sliding-window anti-replay mechanism of slidingwindow.go *)
(* (types Int256 and SlidingWindow, functions shiftLeft, setBit, isBitSet, *)
(* methods CheckAndSetNonce and CheckNonce).                               *)
(*                                                                         *)
(* Go's uint64 is modelled at its full width, in two encodings:            *)
(*  - a uint64 used as a NUMBER (offset, nonce, shift) is a tuple of four  *)
(*    16-bit limbs, least significant first, with +, - taken modulo 2^64;  *)
(*  - a uint64 used as a BIT PATTERN (a word of the bitmap) is the set of  *)
(*    the exponents k in 0..63 whose bit 2^k is 1, with <<, >>, |, &       *)
(*    defined on it as Go defines them (a shift count >= 64 gives 0).      *)
(***************************************************************************)
EXTENDS Integers, Sequences, FiniteSets, TLC

(***************************************************************************)
(* uint64 as a number                                                      *)
(***************************************************************************)
Base == 2^16

U64(n) == <<n % Base, (n \div Base) % Base, 0, 0>>

MaxUint64 == <<Base - 1, Base - 1, Base - 1, Base - 1>>

\* a + b on uint64 (wraps modulo 2^64)
U64Add(a, b) ==
  LET s1 == a[1] + b[1]
      s2 == a[2] + b[2] + (s1 \div Base)
      s3 == a[3] + b[3] + (s2 \div Base)
      s4 == a[4] + b[4] + (s3 \div Base)
  IN  <<s1 % Base, s2 % Base, s3 % Base, s4 % Base>>

\* a - b on uint64 (wraps modulo 2^64)
U64Sub(a, b) ==
  LET d1 == a[1] - b[1]
      d2 == a[2] - b[2] - (IF d1 < 0 THEN 1 ELSE 0)
      d3 == a[3] - b[3] - (IF d2 < 0 THEN 1 ELSE 0)
      d4 == a[4] - b[4] - (IF d3 < 0 THEN 1 ELSE 0)
  IN  <<(d1 + Base) % Base, (d2 + Base) % Base,
        (d3 + Base) % Base, (d4 + Base) % Base>>

\* a < b on uint64
U64Lt(a, b) ==
  \/ a[4] < b[4]
  \/ a[4] = b[4] /\ a[3] < b[3]
  \/ a[4] = b[4] /\ a[3] = b[3] /\ a[2] < b[2]
  \/ a[4] = b[4] /\ a[3] = b[3] /\ a[2] = b[2] /\ a[1] < b[1]

\* a >= b on uint64
U64Ge(a, b) == ~U64Lt(a, b)

\* a / d on uint64, for a divisor d that divides Base
U64Div(a, d) ==
  LET hi(k) == (a[k + 1] % d) * (Base \div d)
  IN  <<(a[1] \div d) + hi(1), (a[2] \div d) + hi(2),
        (a[3] \div d) + hi(3), a[4] \div d>>

\* a % d on uint64, for a divisor d that divides Base: a number below d
U64Mod(a, d) == a[1] % d

\* the conversion uint8(a): the low 8 bits, as a number in 0..255
Uint8(a) == a[1] % 256

(***************************************************************************)
(* uint64 as a bit pattern                                                 *)
(***************************************************************************)
WordBits == 64

\* x << b
Shl(x, b) == {k + b : k \in {j \in x : j + b < WordBits}}

\* A variant of >> with a slip: the shift count taken modulo the word width,
\* as the hardware shift does, so that x >> 64 is x instead of 0.
ShrMasked(x, s) == {k - (s % WordBits) : k \in {j \in x : j >= s % WordBits}}

\* x >> s
Shr(x, s) == {k - s : k \in {j \in x : j >= s}}

(***************************************************************************)
(* Int256: four words, word 0 the most significant                         *)
(***************************************************************************)
Zero256 == [j \in 0..3 |-> {}]

\* A variant of shiftLeft with a slip in case 2: i[1] = i[2] for i[1] = i[3].
shiftLeftWordSlip(i, a) ==
  LET q == U64Div(a, WordBits)
      w == CASE q = U64(0) -> i
             [] q = U64(1) -> [j \in 0..3 |-> IF j < 3 THEN i[j + 1] ELSE {}]
             [] q = U64(2) -> [j \in 0..3 |-> IF j < 2 THEN i[2] ELSE {}]
             [] q = U64(3) -> [j \in 0..3 |-> IF j < 1 THEN i[j + 3] ELSE {}]
             [] OTHER      -> Zero256
      b == U64Mod(a, WordBits)
  IN  [j \in 0..3 |->
         IF j < 3 THEN Shl(w[j], b) \cup Shr(w[j + 1], WordBits - b)
                  ELSE Shl(w[3], b)]

shiftLeft(i, a) ==
  LET q == U64Div(a, WordBits)
      w == CASE q = U64(0) -> i
             [] q = U64(1) -> [j \in 0..3 |-> IF j < 3 THEN i[j + 1] ELSE {}]
             [] q = U64(2) -> [j \in 0..3 |-> IF j < 2 THEN i[j + 2] ELSE {}]
             [] q = U64(3) -> [j \in 0..3 |-> IF j < 1 THEN i[j + 3] ELSE {}]
             [] OTHER      -> Zero256
      b == U64Mod(a, WordBits)
  IN  [j \in 0..3 |->
         IF j < 3 THEN Shl(w[j], b) \cup Shr(w[j + 1], WordBits - b)
                  ELSE Shl(w[3], b)]

\* A variant of setBit with a slip: the bit counted from the least
\* significant end of its word (0x01 << (a % 64)).
setBitLowFirst(i, a) ==
  [i EXCEPT ![a \div WordBits] = @ \cup Shl({0}, a % WordBits)]

setBit(i, a) ==
  [i EXCEPT ![a \div WordBits] = @ \cup Shl({0}, (WordBits - 1) - (a % WordBits))]

isBitSet(i, a) ==
  (i[a \div WordBits] \cap Shl({0}, (WordBits - 1) - (a % WordBits))) # {}

(***************************************************************************)
(* Reason                                                                  *)
(***************************************************************************)
ReasonFirst == "First"
ReasonReuse == "Reuse"
ReasonShift == "Shift"
ReasonOutOfWindow == "OutOfWindow"

Reasons == {ReasonFirst, ReasonReuse, ReasonShift, ReasonOutOfWindow}

(***************************************************************************)
(* SlidingWindow and its two methods, as functions of the window's fields  *)
(* and the nonce: the returned (Reason, bool) and the fields afterwards.   *)
(***************************************************************************)
windowSize == 256

Ret(r, b, off, bm) == [reason |-> r, ok |-> b, offset |-> off, bitmap |-> bm]

\* Variants of CheckAndSetNonce with one slip each, used to show that the
\* properties below depend on the code: (Reuse, true) returned on a replay;
\* the bit set before it is tested; newOffset without its + 1.
CheckAndSetNonceReuseTrue(off, bm, nonce) ==
  IF U64Lt(nonce, off)
  THEN Ret(ReasonOutOfWindow, FALSE, off, bm)
  ELSE IF U64Ge(nonce, U64Add(off, U64(windowSize)))
  THEN LET newOffset == U64Add(U64Sub(nonce, U64(windowSize)), U64(1))
           shifted   == shiftLeft(bm, U64Sub(newOffset, off))
       IN  Ret(ReasonShift, TRUE, newOffset,
               setBit(shifted, Uint8(U64Sub(nonce, newOffset))))
  ELSE LET bitPos == Uint8(U64Sub(nonce, off))
       IN  IF isBitSet(bm, bitPos)
           THEN Ret(ReasonReuse, TRUE, off, bm)
           ELSE Ret(ReasonFirst, TRUE, off, setBit(bm, bitPos))

CheckAndSetNonceSetsBeforeTest(off, bm, nonce) ==
  IF U64Lt(nonce, off)
  THEN Ret(ReasonOutOfWindow, FALSE, off, bm)
  ELSE IF U64Ge(nonce, U64Add(off, U64(windowSize)))
  THEN LET newOffset == U64Add(U64Sub(nonce, U64(windowSize)), U64(1))
           shifted   == shiftLeft(bm, U64Sub(newOffset, off))
       IN  Ret(ReasonShift, TRUE, newOffset,
               setBit(shifted, Uint8(U64Sub(nonce, newOffset))))
  ELSE LET bitPos == Uint8(U64Sub(nonce, off))
           marked == setBit(bm, bitPos)
       IN  IF isBitSet(marked, bitPos)
           THEN Ret(ReasonReuse, FALSE, off, marked)
           ELSE Ret(ReasonFirst, TRUE, off, marked)

CheckAndSetNonceOffByOne(off, bm, nonce) ==
  IF U64Lt(nonce, off)
  THEN Ret(ReasonOutOfWindow, FALSE, off, bm)
  ELSE IF U64Ge(nonce, U64Add(off, U64(windowSize)))
  THEN LET newOffset == U64Sub(nonce, U64(windowSize))
           shifted   == shiftLeft(bm, U64Sub(newOffset, off))
       IN  Ret(ReasonShift, TRUE, newOffset,
               setBit(shifted, Uint8(U64Sub(nonce, newOffset))))
  ELSE LET bitPos == Uint8(U64Sub(nonce, off))
       IN  IF isBitSet(bm, bitPos)
           THEN Ret(ReasonReuse, FALSE, off, bm)
           ELSE Ret(ReasonFirst, TRUE, off, setBit(bm, bitPos))

\* the right edge tested with > instead of >=
CheckAndSetNonceStrictEdge(off, bm, nonce) ==
  IF U64Lt(nonce, off)
  THEN Ret(ReasonOutOfWindow, FALSE, off, bm)
  ELSE IF U64Lt(U64Add(off, U64(windowSize)), nonce)
  THEN LET newOffset == U64Add(U64Sub(nonce, U64(windowSize)), U64(1))
           shifted   == shiftLeft(bm, U64Sub(newOffset, off))
       IN  Ret(ReasonShift, TRUE, newOffset,
               setBit(shifted, Uint8(U64Sub(nonce, newOffset))))
  ELSE LET bitPos == Uint8(U64Sub(nonce, off))
       IN  IF isBitSet(bm, bitPos)
           THEN Ret(ReasonReuse, FALSE, off, bm)
           ELSE Ret(ReasonFirst, TRUE, off, setBit(bm, bitPos))

CheckAndSetNonceCall(off, bm, nonce) ==
  IF U64Lt(nonce, off)
  THEN Ret(ReasonOutOfWindow, FALSE, off, bm)
  ELSE IF U64Ge(nonce, U64Add(off, U64(windowSize)))
  THEN LET newOffset == U64Add(U64Sub(nonce, U64(windowSize)), U64(1))
           shift     == U64Sub(newOffset, off)
           shifted   == shiftLeft(bm, shift)
       IN  Ret(ReasonShift, TRUE, newOffset,
               setBit(shifted, Uint8(U64Sub(nonce, newOffset))))
  ELSE LET bitPos == Uint8(U64Sub(nonce, off))
       IN  IF isBitSet(bm, bitPos)
           THEN Ret(ReasonReuse, FALSE, off, bm)
           ELSE Ret(ReasonFirst, TRUE, off, setBit(bm, bitPos))

\* Variants of CheckNonce with one slip each: the peek done by committing; the
\* right edge tested with > instead of >=.
CheckNonceCommits(off, bm, nonce) == CheckAndSetNonceCall(off, bm, nonce)

CheckNonceStrictEdge(off, bm, nonce) ==
  IF U64Lt(nonce, off)
  THEN Ret(ReasonOutOfWindow, FALSE, off, bm)
  ELSE IF U64Lt(U64Add(off, U64(windowSize)), nonce)
  THEN Ret(ReasonShift, TRUE, off, bm)
  ELSE LET bitPos == Uint8(U64Sub(nonce, off))
       IN  IF isBitSet(bm, bitPos)
           THEN Ret(ReasonReuse, FALSE, off, bm)
           ELSE Ret(ReasonFirst, TRUE, off, bm)

CheckNonceCall(off, bm, nonce) ==
  IF U64Lt(nonce, off)
  THEN Ret(ReasonOutOfWindow, FALSE, off, bm)
  ELSE IF U64Ge(nonce, U64Add(off, U64(windowSize)))
  THEN Ret(ReasonShift, TRUE, off, bm)
  ELSE LET bitPos == Uint8(U64Sub(nonce, off))
       IN  IF isBitSet(bm, bitPos)
           THEN Ret(ReasonReuse, FALSE, off, bm)
           ELSE Ret(ReasonFirst, TRUE, off, bm)

(***************************************************************************)
(* Bounds of the model                                                     *)
(***************************************************************************)
\* the number of calls made on one window
MaxCalls == 3
\* how many nonces are taken next to each edge
Spread == 1

\* The nonces the callers pass: at the left edge of the fresh window, at its
\* right edge (255, 256), and at the top of the uint64 range.
Nonces ==
  UNION {{U64(k), U64(windowSize - 1 + k),
          U64Sub(MaxUint64, U64(k)),
          U64Sub(MaxUint64, U64(windowSize + k))} : k \in 0..Spread}

(***************************************************************************)
(* State                                                                   *)
(***************************************************************************)
VARIABLES
  offset,    \* SlidingWindow.offset
  bitmap,    \* SlidingWindow.bitmap
  op,        \* the method called last: "CheckAndSetNonce", "CheckNonce", "none"
  arg,       \* its nonce
  reason,    \* the Reason it returned
  ok,        \* the bool it returned
  calls,     \* the number of calls made so far
  accepts,   \* per nonce, how many CheckAndSetNonce calls returned true for it
  stale,     \* the nonces that were below offset after some call
  peeked,    \* what the CheckNonce calls since the last CheckAndSetNonce returned
  fn,        \* one evaluation of the bitmap primitives: its inputs and results
  procs      \* the calls in progress when two callers share the window

vars == <<offset, bitmap, op, arg, reason, ok, calls, accepts, stale, peeked,
          fn, procs>>

\* no evaluation of the primitives recorded; no concurrent callers
NoEval == [pc |-> "none"]
NoProcs == [mode |-> "none"]

Below(off) == {n \in Nonces : U64Lt(n, off)}

\* window := new(SlidingWindow)
Init ==
  /\ offset = U64(0)
  /\ bitmap = Zero256
  /\ op = "none"
  /\ arg = U64(0)
  /\ reason = "none"
  /\ ok = FALSE
  /\ calls = 0
  /\ accepts = [n \in Nonces |-> 0]
  /\ stale = {}
  /\ peeked = {}
  /\ fn = NoEval
  /\ procs = NoProcs

CheckAndSetNonce(nonce) ==
  /\ calls < MaxCalls
  /\ LET r == CheckAndSetNonceCall(offset, bitmap, nonce)
     IN  /\ offset' = r.offset
         /\ bitmap' = r.bitmap
         /\ reason' = r.reason
         /\ ok' = r.ok
         /\ accepts' = [accepts EXCEPT ![nonce] = IF r.ok THEN @ + 1 ELSE @]
         /\ stale' = stale \cup Below(r.offset)
  /\ op' = "CheckAndSetNonce"
  /\ arg' = nonce
  /\ calls' = calls + 1
  /\ peeked' = {}
  /\ UNCHANGED <<fn, procs>>

CheckNonce(nonce) ==
  /\ calls < MaxCalls
  /\ LET r == CheckNonceCall(offset, bitmap, nonce)
     IN  /\ offset' = r.offset
         /\ bitmap' = r.bitmap
         /\ reason' = r.reason
         /\ ok' = r.ok
         /\ stale' = stale \cup Below(r.offset)
         /\ peeked' = peeked \cup {[nonce |-> nonce, reason |-> r.reason, ok |-> r.ok,
                                     at |-> calls + 1]}
  /\ op' = "CheckNonce"
  /\ arg' = nonce
  /\ calls' = calls + 1
  /\ UNCHANGED <<accepts, fn, procs>>

Next ==
  \E nonce \in Nonces :
    \/ CheckAndSetNonce(nonce)
    \/ CheckNonce(nonce)

Spec == Init /\ [][Next]_vars

(***************************************************************************)
(* Properties                                                              *)
(***************************************************************************)
Pair(r) == <<r.reason, r.ok>>

\* a - b as an exact integer comparison against a small number d, for a >= b:
\* TRUE iff the exact difference a - b is below d
DiffBelow(a, b, d) == U64Lt(U64Sub(a, b), U64(d))

\* The reason the nonce's region gives, the regions taken in exact integers:
\* below offset; inside [offset, offset + 256); above.
RegionReason(off, bm, nonce) ==
  IF U64Lt(nonce, off) THEN ReasonOutOfWindow
  ELSE IF DiffBelow(nonce, off, windowSize)
       THEN IF isBitSet(bm, Uint8(U64Sub(nonce, off)))
            THEN ReasonReuse ELSE ReasonFirst
       ELSE ReasonShift

\* C1: no nonce value is accepted by more than one CheckAndSetNonce call.
NoDoubleAccept == \A n \in Nonces : accepts[n] <= 1

\* C2: the offset after a call is never below the offset before it.
OffsetMonotone == [][U64Ge(offset', offset)]_vars

\* C3: a nonce that was once below the offset is answered (OutOfWindow, false)
\* by every later CheckAndSetNonce and CheckNonce.
StalePermanence ==
  [][arg' \in stale => (reason' = ReasonOutOfWindow /\ ok' = FALSE)]_vars

RepeatAfterAccept ==
  [][(op = "CheckAndSetNonce" /\ ok /\ arg' = arg) =>
       (reason' = ReasonReuse /\ ok' = FALSE)]_vars

\* C6: CheckAndSetNonce returns the reason of the nonce's region, the regions
\* computed in exact integers; a nonce inside the window is never a Shift.
RegionClassification ==
  [][op' = "CheckAndSetNonce" => reason' = RegionReason(offset, bitmap, arg')]_vars

\* C7: every return pairs First and Shift with true, Reuse and OutOfWindow
\* with false.
ReasonBoolCorrespondence ==
  op # "none" =>
    /\ reason \in Reasons
    /\ ok = (reason \in {ReasonFirst, ReasonShift})

\* C7 witness: a replay detected by CheckAndSetNonce.
ReuseReturned == op = "CheckAndSetNonce" /\ reason = ReasonReuse /\ ok = FALSE

\* C8: a CheckAndSetNonce that returns false leaves offset and bitmap unchanged.
RejectionUnchanged ==
  [][(op' = "CheckAndSetNonce" /\ ok' = FALSE) =>
       (offset' = offset /\ bitmap' = bitmap)]_vars

\* C8 witness: a stale nonce rejected in a window that holds accepted nonces.
RejectedReached ==
  /\ op = "CheckAndSetNonce"
  /\ reason = ReasonOutOfWindow
  /\ ok = FALSE
  /\ bitmap # Zero256

\* C9: after CheckAndSetNonce(n) returned Shift, offset = n - 256 + 1 without
\* wrap-around, offset + 255 = n, and bit 255 (the lowest bit of word 3) is 1.
ShiftPostcondition ==
  (op = "CheckAndSetNonce" /\ reason = ReasonShift) =>
    /\ ok
    /\ U64Ge(arg, U64(windowSize - 1))
    /\ offset = U64Sub(arg, U64(windowSize - 1))
    /\ U64Ge(arg, offset)
    /\ U64Add(offset, U64(windowSize - 1)) = arg
    /\ 0 \in bitmap[3]

\* C9 witness: a shift that kept a bit of the window's history beside the
\* bit of its nonce.
ShiftReached ==
  /\ op = "CheckAndSetNonce"
  /\ reason = ReasonShift
  /\ ok
  /\ \E j \in 0..3 : bitmap[j] \ {0} # {}

\* C10: in every state CheckNonce(n) returns the pair CheckAndSetNonce(n)
\* would return there; after a CheckNonce that is the pair it returned.
PeekAgreesWithCommit ==
  /\ \A n \in Nonces :
       Pair(CheckNonceCall(offset, bitmap, n))
         = Pair(CheckAndSetNonceCall(offset, bitmap, n))
  /\ op = "CheckNonce" =>
       Pair(CheckAndSetNonceCall(offset, bitmap, arg)) = <<reason, ok>>

\* C10 witness: a peek on the Shift branch of a window that has moved.
PeekShiftReached ==
  /\ op = "CheckNonce"
  /\ reason = ReasonShift
  /\ ok
  /\ offset # U64(0)

(***************************************************************************)
(* The bitmap read as the spec reads it: position k (0 = the most          *)
(* significant bit of word 0) stands for the nonce offset + k.             *)
(***************************************************************************)
\* the positions whose bit is 1
SeenPositions(bm) ==
  UNION {{WordBits * j + ((WordBits - 1) - e) : e \in bm[j]} : j \in 0..3}

\* the nonces whose bit is 1
SeenNonces(off, bm) == {U64Add(off, U64(k)) : k \in SeenPositions(bm)}

\* n lies in [off, off + 256), in exact integers
InWindow(off, n) == U64Ge(n, off) /\ DiffBelow(n, off, windowSize)

\* the nonces some CheckAndSetNonce call has accepted
Accepted == {n \in Nonces : accepts[n] > 0}

\* positions shifted left by the uint64 amount a, as exact integers
ShiftedPositions(ps, a) ==
  IF U64Lt(a, U64(windowSize)) THEN {k - a[1] : k \in {j \in ps : j >= a[1]}}
                               ELSE {}

\* C11: bit k of the bitmap is 1 iff the nonce offset + k was accepted by an
\* earlier CheckAndSetNonce: the bitmap is the set of accepted nonces
\* restricted to [offset, offset + 256).
BitmapMeaning ==
  SeenNonces(offset, bitmap) = {a \in Accepted : InWindow(offset, a)}

\* C12: on the slide branch offset + 256 and nonce - 256 + 1 do not wrap, and
\* shift = newOffset - offset is at least 1 and at most nonce.
PositiveShift ==
  [][(op' = "CheckAndSetNonce" /\ reason' = ReasonShift) =>
       /\ U64Ge(U64Add(offset, U64(windowSize)), offset)
       /\ U64Ge(arg', U64(windowSize))
       /\ U64Lt(offset, offset')
       /\ ~U64Lt(arg', U64Sub(offset', offset))]_vars

\* C13: after a Shift for nonce n, a nonce m # n of the new window is seen iff
\* it was seen in the old window, and every seen nonce that was dropped lies
\* strictly below the new offset.
ShiftKeepsHistory ==
  [][(op' = "CheckAndSetNonce" /\ reason' = ReasonShift) =>
       LET old  == SeenNonces(offset, bitmap)
           new  == SeenNonces(offset', bitmap')
       IN  /\ new \ {arg'} = {m \in old : InWindow(offset', m)} \ {arg'}
           /\ \A m \in old \ new : U64Lt(m, offset')]_vars

NewestAtRightEdge ==
  offset # U64(0) =>
    /\ (windowSize - 1) \in SeenPositions(bitmap)
    /\ U64Add(offset, U64(windowSize - 1)) \in Accepted
    /\ \A a \in Accepted : ~U64Lt(U64Add(offset, U64(windowSize - 1)), a)

\* C19: a nonce strictly greater than every nonce accepted so far is accepted
\* by CheckAndSetNonce.
InOrderAccepted ==
  [][(op' = "CheckAndSetNonce" /\ \A a \in Accepted : U64Lt(a, arg')) =>
       (ok' /\ reason' \in {ReasonFirst, ReasonShift})]_vars

\* C19 witness: the third nonce of a strictly increasing sequence, accepted.
InOrderReached ==
  /\ op = "CheckAndSetNonce"
  /\ ok
  /\ Cardinality(Accepted) >= 3
  /\ \A a \in Accepted : accepts[a] = 1 /\ ~U64Lt(arg, a)
  /\ calls >= 3

(***************************************************************************)
(* The bitmap primitives on their own: shiftLeft, setBit and isBitSet      *)
(* applied to 256-bit values and arguments drawn from bounded sets.        *)
(***************************************************************************)
\* the most bits set in an input value (the all-ones value aside)
MaxBits == 2

\* the first and last position of every word, and their neighbours at the ends
EdgePositions ==
  UNION {{WordBits * j, WordBits * j + (WordBits - 1)} : j \in 0..3}
    \cup {1, windowSize - 2}

\* the Int256 whose 1 bits are at the positions ps
FromPositions(ps) ==
  [j \in 0..3 |->
     {(WordBits - 1) - (k % WordBits) : k \in {k \in ps : k \div WordBits = j}}]

Values256 ==
  {FromPositions(ps) : ps \in {ps \in SUBSET EdgePositions : Cardinality(ps) <= MaxBits}}
    \cup {FromPositions(0..(windowSize - 1))}

\* shift amounts: none, sub-word, whole words, whole words plus a remainder,
\* the width and beyond, and amounts that only fit in 64 bits
Amounts ==
  {U64(n) : n \in {0, 1, WordBits - 1, WordBits, WordBits + 1,
                   2 * WordBits - 1, 2 * WordBits, 2 * WordBits + 1,
                   3 * WordBits, windowSize - 1, windowSize, windowSize + 1}}
    \cup {MaxUint64, U64Sub(MaxUint64, U64(WordBits - 1)),
          <<0, 0, 1, 0>>, <<WordBits, 0, 0, 1>>}

FnInit ==
  /\ offset = U64(0)
  /\ bitmap = Zero256
  /\ op = "none"
  /\ arg = U64(0)
  /\ reason = "none"
  /\ ok = FALSE
  /\ calls = 0
  /\ accepts = [n \in Nonces |-> 0]
  /\ stale = {}
  /\ peeked = {}
  /\ fn \in {[pc |-> "input", x |-> x] : x \in Values256}
  /\ procs = NoProcs

\* shiftLeft(x, a), shiftLeft(shiftLeft(x, a), b) and shiftLeft(x, a + b)
ShiftTwice(a, b) ==
  /\ fn.pc = "input"
  /\ fn' = [pc |-> "shifted", x |-> fn.x, a |-> a, b |-> b,
            once  |-> shiftLeft(fn.x, a),
            twice |-> shiftLeft(shiftLeft(fn.x, a), b),
            sum   |-> shiftLeft(fn.x, U64Add(a, b))]
  /\ UNCHANGED <<offset, bitmap, op, arg, reason, ok, calls, accepts, stale,
                 peeked, procs>>

\* setBit(x, p), then isBitSet at p and at q
SetThenTest(p, q) ==
  /\ fn.pc = "input"
  /\ fn' = [pc |-> "set", x |-> fn.x, p |-> p, q |-> q,
            set    |-> setBit(fn.x, p),
            same   |-> isBitSet(setBit(fn.x, p), p),
            other  |-> isBitSet(setBit(fn.x, p), q),
            before |-> isBitSet(fn.x, q)]
  /\ UNCHANGED <<offset, bitmap, op, arg, reason, ok, calls, accepts, stale,
                 peeked, procs>>

FnNext ==
  \/ \E a \in Amounts, b \in Amounts : ShiftTwice(a, b)
  \/ \E p \in EdgePositions, q \in EdgePositions : SetThenTest(p, q)

FnSpec == FnInit /\ [][FnNext]_vars

\* a + b does not wrap in uint64
NoWrap(a, b) == U64Ge(U64Add(a, b), a)

\* C15: bit k of shiftLeft(x, a) is bit k + a of x when k + a < 256 and 0
\* otherwise (bit 0 the most significant), for every amount a.
ShiftLeftMatchesReference ==
  fn.pc = "shifted" =>
    /\ \A j \in 0..3 : fn.once[j] \subseteq 0..(WordBits - 1)
    /\ SeenPositions(fn.once) = ShiftedPositions(SeenPositions(fn.x), fn.a)

\* C15 witness: a shift by two whole words (sub-word shift 0) of a value with
\* bits in the words that move and in the words that feed the carry.
WordShiftReached ==
  /\ fn.pc = "shifted"
  /\ fn.a = U64(2 * WordBits)
  /\ fn.x = FromPositions(0..(windowSize - 1))
  /\ fn.once # Zero256

\* C16 as claimed: shiftLeft(shiftLeft(x, a), b) = shiftLeft(x, a + b) with
\* a + b the (wrapping) uint64 sum, and shiftLeft(x, c) is zero for c >= 256.
ShiftComposition ==
  fn.pc = "shifted" =>
    /\ fn.twice = fn.sum
    /\ U64Ge(fn.a, U64(windowSize)) => fn.once = Zero256

\* C16 amended: the same, for the a and b whose sum does not wrap in uint64.
ShiftCompositionNoWrap ==
  fn.pc = "shifted" =>
    /\ NoWrap(fn.a, fn.b) => fn.twice = fn.sum
    /\ U64Ge(fn.a, U64(windowSize)) => fn.once = Zero256

\* C16 witness: two shifts, neither by 0, that leave bits standing.
ComposedReached ==
  /\ fn.pc = "shifted"
  /\ fn.a = U64(WordBits)
  /\ fn.b = U64(WordBits)
  /\ fn.twice # Zero256
  /\ fn.twice # fn.once

\* C20: isBitSet(setBit(x, p), p) is true; for q # p, isBitSet(setBit(x, p), q)
\* equals isBitSet(x, q); position 0 is the most significant bit of word 0.
BitRoundTrip ==
  fn.pc = "set" =>
    /\ fn.same
    /\ fn.q # fn.p => fn.other = fn.before
    /\ fn.p = 0 => (WordBits - 1) \in fn.set[0]

\* C20 witness: a bit set beside another one that is already set.
BitSetReached ==
  /\ fn.pc = "set"
  /\ fn.p # fn.q
  /\ fn.before
  /\ fn.other
  /\ ~isBitSet(fn.x, fn.p)

(***************************************************************************)
(* Two CheckAndSetNonce calls on one window.  A call is three steps, as    *)
(* its code is three groups of statements: the range test (lines           *)
(* 102-106), then either the slide (107-112) or the bit test (115-118)     *)
(* followed by the bit set (119-120).  In mode "racing" the steps of the   *)
(* two calls interleave freely; in mode "serialized" a call starts only    *)
(* when no other call is under way, as in main's loop.                     *)
(***************************************************************************)
Callers == {1, 2}

\* the windows the two calls may find: fresh, or after one accepted nonce
StartWindows ==
  {[offset |-> U64(0), bitmap |-> Zero256]}
    \cup {[offset |-> CheckAndSetNonceCall(U64(0), Zero256, n).offset,
           bitmap |-> CheckAndSetNonceCall(U64(0), Zero256, n).bitmap] : n \in Nonces}

ConcInit ==
  /\ \E w \in StartWindows :
       /\ offset = w.offset
       /\ bitmap = w.bitmap
       /\ procs \in {[mode |-> m, start |-> w, nonce |-> ns,
                      pc |-> [p \in Callers |-> "start"],
                      bitPos |-> [p \in Callers |-> 0],
                      ret |-> [p \in Callers |-> <<"none", FALSE>>]] :
                       m \in {"racing", "serialized"},
                       ns \in [Callers -> Nonces]}
  /\ op = "none"
  /\ arg = U64(0)
  /\ reason = "none"
  /\ ok = FALSE
  /\ calls = 0
  /\ accepts = [n \in Nonces |-> 0]
  /\ stale = {}
  /\ peeked = {}
  /\ fn = NoEval

\* A variant of CallerMayEnter with a slip: calls started without waiting
\* for the call under way (go window.CheckAndSetNonce(nonce)).
CallerEntersAnyTime(p) == TRUE

\* the caller starts a call only when no other call is under way
CallerMayEnter(p) ==
  procs.mode = "serialized" =>
    \A q \in Callers \ {p} : procs.pc[q] \in {"start", "done"}

Returns(p, r, b) ==
  [procs EXCEPT !.pc[p] = "done", !.ret[p] = <<r, b>>]

\* lines 102-106: the two tests of the nonce against the window
RangeTest(p) ==
  /\ procs.pc[p] = "start"
  /\ CallerMayEnter(p)
  /\ procs' =
       IF U64Lt(procs.nonce[p], offset)
       THEN Returns(p, ReasonOutOfWindow, FALSE)
       ELSE IF U64Ge(procs.nonce[p], U64Add(offset, U64(windowSize)))
       THEN [procs EXCEPT !.pc[p] = "slide"]
       ELSE [procs EXCEPT !.pc[p] = "bittest"]
  /\ UNCHANGED <<offset, bitmap, op, arg, reason, ok, calls, accepts, stale,
                 peeked, fn>>

\* lines 107-112: shift the window and set the nonce's bit
Slide(p) ==
  /\ procs.pc[p] = "slide"
  /\ LET nonce     == procs.nonce[p]
         newOffset == U64Add(U64Sub(nonce, U64(windowSize)), U64(1))
         shift     == U64Sub(newOffset, offset)
     IN  /\ offset' = newOffset
         /\ bitmap' = setBit(shiftLeft(bitmap, shift),
                             Uint8(U64Sub(nonce, newOffset)))
  /\ procs' = Returns(p, ReasonShift, TRUE)
  /\ UNCHANGED <<op, arg, reason, ok, calls, accepts, stale, peeked, fn>>

\* lines 115-118: compute bitPos and test the bit
BitTest(p) ==
  /\ procs.pc[p] = "bittest"
  /\ LET bitPos == Uint8(U64Sub(procs.nonce[p], offset))
     IN  procs' =
           IF isBitSet(bitmap, bitPos)
           THEN Returns(p, ReasonReuse, FALSE)
           ELSE [procs EXCEPT !.pc[p] = "bitset", !.bitPos[p] = bitPos]
  /\ UNCHANGED <<offset, bitmap, op, arg, reason, ok, calls, accepts, stale,
                 peeked, fn>>

\* lines 119-120: set the bit
BitSet(p) ==
  /\ procs.pc[p] = "bitset"
  /\ bitmap' = setBit(bitmap, procs.bitPos[p])
  /\ procs' = Returns(p, ReasonFirst, TRUE)
  /\ UNCHANGED <<offset, op, arg, reason, ok, calls, accepts, stale, peeked, fn>>

ConcNext ==
  \E p \in Callers :
    \/ RangeTest(p)
    \/ Slide(p)
    \/ BitTest(p)
    \/ BitSet(p)

ConcSpec == ConcInit /\ [][ConcNext]_vars

\* what the two calls return and leave behind when the call of caller first
\* runs to its end before the other one starts
SerialOutcome(first) ==
  LET second == CHOOSE q \in Callers : q # first
      r1 == CheckAndSetNonceCall(procs.start.offset, procs.start.bitmap,
                                 procs.nonce[first])
      r2 == CheckAndSetNonceCall(r1.offset, r1.bitmap, procs.nonce[second])
  IN  [ret |-> [p \in Callers |-> IF p = first THEN Pair(r1) ELSE Pair(r2)],
       offset |-> r2.offset, bitmap |-> r2.bitmap]

BothDone == \A p \in Callers : procs.pc[p] = "done"

IsSerial ==
  [ret |-> procs.ret, offset |-> offset, bitmap |-> bitmap]
    \in {SerialOutcome(first) : first \in Callers}

\* C17: when each call runs without the other one in between, the two calls
\* end as one of their two serial orders ends; when their steps interleave,
\* an end that no serial order has is reachable (the witness).
SerializedIsSerial ==
  (procs.mode = "serialized" /\ BothDone) => IsSerial

\* C17 witness: interleaved, both calls return true for the same nonce, which
\* no serial order of the two calls does.
RaceDoubleAccept ==
  /\ procs.mode = "racing"
  /\ BothDone
  /\ procs.nonce[1] = procs.nonce[2]
  /\ procs.ret[1][2] /\ procs.ret[2][2]
  /\ ~IsSerial

====
